---- MODULE Spec2Model ----
(***************************************************************************)
(* NattyCheck API.                                                         *)
(*                                                                         *)
(* Synchronous variant (natty-api/main.py): GET /health and POST /analyze, *)
(* which checks the credential, validates and encodes the three uploads,   *)
(* calls the vision provider once, parses its answer and validates it      *)
(* against AnalyzeResponse.  The handler is followed statement by          *)
(* statement through pc; the server keeps no state between requests, so a  *)
(* behaviour follows one request from arrival to its response.             *)
(*                                                                         *)
(* Polling variant (job store and orchestrator of the specification):      *)
(* submit / runPipeline / poll over an in-memory job store.                *)
(***************************************************************************)
EXTENDS Integers, Sequences, FiniteSets, TLC

VARIABLES
    OPENAI_API_KEY,  \* credential read from the environment at import time
    front, side, back, \* the three multipart uploads of the request
    pc,              \* position of the analyze handler
    urls,            \* front_b64 / side_b64 / back_b64 computed so far
    reads,           \* parts whose file was read (img.file.read()), in order
    calls,           \* number of client.chat.completions.create invocations
    sent,            \* image_url blocks of the request sent to the provider
    upstream,        \* what the provider did when it was called
    data,            \* json.loads(raw), once computed
    out,             \* AnalyzeResponse of the unpacked data, once constructed
    response,        \* HTTP response of POST /analyze
    healthResp,      \* last answer of GET /health
    JOBS,            \* polling variant: job id -> job record
    mutations,       \* polling variant: per job, number of pipeline mutations
    scheduled,       \* polling variant: per job, number of executions scheduled
    pollResp         \* polling variant: last answer of GET /jobs/{id}

syncVars == <<OPENAI_API_KEY, front, side, back, pc, urls, reads, calls, sent,
              upstream, data, out, response, healthResp>>
jobVars == <<JOBS, mutations, scheduled, pollResp>>
vars == <<OPENAI_API_KEY, front, side, back, pc, urls, reads, calls, sent,
          upstream, data, out, response, healthResp, JOBS, mutations, scheduled, pollResp>>

----------------------------------------------------------------------------
(* Constants of main.py *)

MAX_BYTES == 6 * 1024 * 1024

ALLOWED_MIME == {"image/jpeg", "image/jpg", "image/png", "image/heic", "image/heif"}

(* Inputs of a request.  An upload is its content-type header, the number   *)
(* of bytes its file holds, and whether reading the file succeeds.          *)
ContentTypes == ALLOWED_MIME \cup {"image/gif"}

Sizes == {0, 1, MAX_BYTES, MAX_BYTES + 1}

Uploads ==
    [content_type : ContentTypes, size : Sizes, readable : {TRUE}]
    \cup [content_type : {"image/jpeg"}, size : {0}, readable : {FALSE}]

Keys == {"", "sk-test"}

Parts == <<"front", "side", "back">>

----------------------------------------------------------------------------
(* _validate_and_b64 *)

NoDetail == [msg |-> "", arg |-> ""]

NoUrl == [mime |-> "", b64len |-> 0]

(* len(base64.b64encode(raw)) for len(raw) = n *)
b64encode_len(n) == 4 * ((n + 2) \div 3)

(* "jpeg" in content_type or "jpg" in content_type, over ContentTypes *)
HasJpeg(ct) == ct \in {"image/jpeg", "image/jpg"}

validate_and_b64_no_limit(img) ==
    IF img.content_type \notin ALLOWED_MIME
    THEN [raised |-> "HTTPException", status |-> 400,
          detail |-> [msg |-> "Unsupported content-type: ", arg |-> img.content_type],
          read |-> FALSE, url |-> NoUrl]
    ELSE IF ~img.readable
    THEN [raised |-> "Exception", status |-> 0,
          detail |-> [msg |-> "read failed", arg |-> ""],
          read |-> TRUE, url |-> NoUrl]
    ELSE IF img.size = 0
    THEN [raised |-> "HTTPException", status |-> 400,
          detail |-> [msg |-> "Empty file", arg |-> ""],
          read |-> TRUE, url |-> NoUrl]
    ELSE [raised |-> "", status |-> 0, detail |-> NoDetail, read |-> TRUE,
          url |-> [mime |-> IF HasJpeg(img.content_type) THEN "image/jpeg" ELSE "image/png",
                   b64len |-> b64encode_len(img.size)]]

validate_and_b64_off_by_one(img) ==
    IF img.content_type \in ALLOWED_MIME /\ img.readable /\ img.size >= MAX_BYTES
    THEN [raised |-> "HTTPException", status |-> 413,
          detail |-> [msg |-> "Image too large (> {}MB)",
                      arg |-> ToString((MAX_BYTES \div 1024) \div 1024)],
          read |-> TRUE, url |-> NoUrl]
    ELSE validate_and_b64_no_limit(img)

_validate_and_b64(img) ==
    IF img.content_type \notin ALLOWED_MIME
    THEN [raised |-> "HTTPException", status |-> 400,
          detail |-> [msg |-> "Unsupported content-type: ", arg |-> img.content_type],
          read |-> FALSE, url |-> NoUrl]
    ELSE IF ~img.readable
    THEN [raised |-> "Exception", status |-> 0,
          detail |-> [msg |-> "read failed", arg |-> ""],
          read |-> TRUE, url |-> NoUrl]
    ELSE IF img.size = 0
    THEN [raised |-> "HTTPException", status |-> 400,
          detail |-> [msg |-> "Empty file", arg |-> ""],
          read |-> TRUE, url |-> NoUrl]
    ELSE IF img.size > MAX_BYTES
    THEN [raised |-> "HTTPException", status |-> 413,
          detail |-> [msg |-> "Image too large (> {}MB)",
                      arg |-> ToString((MAX_BYTES \div 1024) \div 1024)],
          read |-> TRUE, url |-> NoUrl]
    ELSE [raised |-> "", status |-> 0, detail |-> NoDetail, read |-> TRUE,
          url |-> [mime |-> IF HasJpeg(img.content_type) THEN "image/jpeg" ELSE "image/png",
                   b64len |-> b64encode_len(img.size)]]

----------------------------------------------------------------------------
(* JSON values and the report schema *)

(* A parsed JSON value: its kind and, for an object, its members as        *)
(* <<name, shape of the value>>.  Shapes: "int", "float" (non-integral),   *)
(* "str" (non-numeric text), "dict_int", "dict_float", "dict_mixed",       *)
(* "dict_dict" (an object whose values are ints / floats / of several      *)
(* types / objects).                                                       *)
DictShapes == {"dict_int", "dict_float", "dict_mixed", "dict_dict"}

NoJson == [kind |-> "unset", members |-> {}]

Object(ms) == [kind |-> "object", members |-> ms]

Array == [kind |-> "array", members |-> {}]

(* class AnalyzeResponse(BaseModel): field -> declared type *)
AnalyzeResponseFields ==
    {<<"overallScore", "int">>, <<"confidence", "float">>,
     <<"summary", "Dict[str,int]">>, <<"natty", "Dict[str,Any]">>,
     <<"ratios", "Dict[str,float]">>, <<"posture", "Dict[str,Any]">>,
     <<"quality", "Dict[str,Dict[str,Any]]">>, <<"completedAt", "str">>}

FieldNames == {f[1] : f \in AnalyzeResponseFields}

(* pydantic's validation of one value against a declared type: the shape   *)
(* of the validated value, or "invalid".  Given for the pairs that occur.  *)
Coerce(decl, shape) ==
    CASE decl = "int" /\ shape = "int" -> "int"
      [] decl = "int" /\ shape \in {"str"} \cup DictShapes -> "invalid"
      [] decl = "float" /\ shape = "float" -> "float"
      [] decl = "float" /\ shape = "int" -> "float"
      [] decl = "float" /\ shape \in {"str"} \cup DictShapes -> "invalid"
      [] decl = "str" /\ shape = "str" -> "str"
      [] decl = "str" /\ shape \in DictShapes -> "invalid"
      [] decl = "Dict[str,int]" /\ shape = "dict_int" -> "dict_int"
      [] decl = "Dict[str,float]" /\ shape = "dict_float" -> "dict_float"
      [] decl = "Dict[str,float]" /\ shape = "dict_int" -> "dict_float"
      [] decl = "Dict[str,Any]" /\ shape \in DictShapes -> shape
      [] decl = "Dict[str,Dict[str,Any]]" /\ shape = "dict_dict" -> "dict_dict"
      [] decl \in {"Dict[str,int]", "Dict[str,float]", "Dict[str,Any]",
                   "Dict[str,Dict[str,Any]]"}
         /\ shape \in {"int", "float", "str"} -> "invalid"

AcceptAnything(d) == [ok |-> TRUE, errors |-> {}, members |-> d.members]

(* AnalyzeResponse of the unpacked data: raises (ok = FALSE, with the errors) or builds *)
(* the model from the declared fields, dropping any other member.          *)
AnalyzeResponse(d) ==
    IF d.kind # "object"
    THEN [ok |-> FALSE, errors |-> {<<"**", "not a mapping">>}, members |-> {}]
    ELSE LET present == {m[1] : m \in d.members}
             errs == {<<f[1], "missing">> : f \in {g \in AnalyzeResponseFields : g[1] \notin present}}
                     \cup {<<m[1], "type">> :
                             m \in {n \in d.members :
                                      \E f \in AnalyzeResponseFields :
                                          f[1] = n[1] /\ Coerce(f[2], n[2]) = "invalid"}}
         IN  IF errs # {}
             THEN [ok |-> FALSE, errors |-> errs, members |-> {}]
             ELSE [ok |-> TRUE, errors |-> {},
                   members |-> {<<f[1], Coerce(f[2], (CHOOSE m \in d.members : m[1] = f[1])[2])>> :
                                   f \in AnalyzeResponseFields}]

(* The texts the provider may answer with. *)
ValidMembers ==
    {<<"overallScore", "int">>, <<"confidence", "float">>, <<"summary", "dict_int">>,
     <<"natty", "dict_mixed">>, <<"ratios", "dict_float">>, <<"posture", "dict_mixed">>,
     <<"quality", "dict_dict">>, <<"completedAt", "str">>}

Texts == {"", "{}", "[1]", "Sorry, I cannot help with that.",
          "{valid report}", "{report without overallScore}",
          "{valid report, plus notes}", "{valid report, confidence: 1}",
          "{report, overallScore: 'high'}"}

(* json.loads(raw) *)
json_loads(raw) ==
    CASE raw = "{}" -> [ok |-> TRUE, value |-> Object({})]
      [] raw = "[1]" -> [ok |-> TRUE, value |-> Array]
      [] raw = "{valid report}" -> [ok |-> TRUE, value |-> Object(ValidMembers)]
      [] raw = "{report without overallScore}" ->
            [ok |-> TRUE, value |-> Object(ValidMembers \ {<<"overallScore", "int">>})]
      [] raw = "{valid report, plus notes}" ->
            [ok |-> TRUE, value |-> Object(ValidMembers \cup {<<"notes", "str">>})]
      [] raw = "{valid report, confidence: 1}" ->
            [ok |-> TRUE,
             value |-> Object((ValidMembers \ {<<"confidence", "float">>})
                               \cup {<<"confidence", "int">>})]
      [] raw = "{report, overallScore: 'high'}" ->
            [ok |-> TRUE,
             value |-> Object((ValidMembers \ {<<"overallScore", "int">>})
                               \cup {<<"overallScore", "str">>})]
      [] OTHER -> [ok |-> FALSE, value |-> NoJson]

(* What the provider does when called: the call raises, or it returns a    *)
(* response with no choice, or with one choice whose content is None or a  *)
(* text.                                                                   *)
Upstreams ==
    {[outcome |-> "raises", content |-> ""],
     [outcome |-> "no_choices", content |-> ""],
     [outcome |-> "content_none", content |-> ""]}
    \cup [outcome : {"content"}, content : Texts]

NoUpstream == [outcome |-> "not called", content |-> ""]

----------------------------------------------------------------------------
(* HTTP responses *)

NoBody == [error |-> "", raw |-> NoJson, errors |-> {}, report |-> {}]

NoResponse == [status |-> 0, via |-> "", detail |-> NoDetail, body |-> NoBody]

HTTPException(status_code, detail) ==
    [status |-> status_code, via |-> "HTTPException", detail |-> detail, body |-> NoBody]

JSONResponse(status_code, content) ==
    [status |-> status_code, via |-> "JSONResponse", detail |-> NoDetail, body |-> content]

NoOut == [set |-> FALSE, members |-> {}]

----------------------------------------------------------------------------
(* Synchronous variant *)

NoResult == ""

NoJob == [status |-> "", message |-> "", result |-> NoResult, createdAt |-> 0]

NoPoll == [asked |-> 0, found |-> FALSE, job |-> NoJob]

jobIdle ==
    /\ JOBS = << >>
    /\ mutations = << >>
    /\ scheduled = << >>
    /\ pollResp = NoPoll

Init ==
    /\ OPENAI_API_KEY \in Keys
    /\ front \in Uploads
    /\ side \in Uploads
    /\ back \in Uploads
    /\ pc = "credential"
    /\ urls = << >>
    /\ reads = << >>
    /\ calls = 0
    /\ sent = << >>
    /\ upstream = NoUpstream
    /\ data = NoJson
    /\ out = NoOut
    /\ response = NoResponse
    /\ healthResp = [answered |-> FALSE, ok |-> FALSE]
    /\ jobIdle

health ==
    /\ healthResp' = [answered |-> TRUE, ok |-> TRUE]
    /\ UNCHANGED <<OPENAI_API_KEY, front, side, back, pc, urls, reads, calls, sent,
                   upstream, data, out, response>>
    /\ UNCHANGED jobVars

Respond(r) ==
    /\ response' = r
    /\ pc' = "responded"

credential_unchecked ==
    /\ pc = "credential"
    /\ pc' = "front"
    /\ UNCHANGED <<OPENAI_API_KEY, front, side, back, urls, reads, calls, sent,
                   upstream, data, out, response, healthResp>>
    /\ UNCHANGED jobVars

analyze_credential ==
    /\ pc = "credential"
    /\ IF OPENAI_API_KEY = ""
       THEN Respond(HTTPException(400, [msg |-> "OPENAI_API_KEY is not set on the server.",
                                        arg |-> ""]))
       ELSE pc' = "front" /\ UNCHANGED response
    /\ UNCHANGED <<OPENAI_API_KEY, front, side, back, urls, reads, calls, sent,
                   upstream, data, out, healthResp>>
    /\ UNCHANGED jobVars

NextPart_swapped(part) ==
    CASE part = "front" -> "back"
      [] part = "back" -> "side"
      [] part = "side" -> "provider"

NextPart(part) ==
    CASE part = "front" -> "side"
      [] part = "side" -> "back"
      [] part = "back" -> "provider"

analyze_image(part, img) ==
    /\ pc = part
    /\ LET r == _validate_and_b64(img)
       IN  /\ reads' = IF r.read THEN Append(reads, part) ELSE reads
           /\ CASE r.raised = "HTTPException" ->
                     /\ Respond(HTTPException(r.status, r.detail))
                     /\ UNCHANGED urls
                [] r.raised = "Exception" ->
                     /\ Respond(HTTPException(400, [msg |-> "Invalid images: ",
                                                    arg |-> r.detail.msg]))
                     /\ UNCHANGED urls
                [] OTHER ->
                     /\ urls' = Append(urls, r.url)
                     /\ pc' = NextPart(part)
                     /\ UNCHANGED response
    /\ UNCHANGED <<OPENAI_API_KEY, front, side, back, calls, sent, upstream, data, out,
                   healthResp>>
    /\ UNCHANGED jobVars

provider_parse_unhandled(up) ==
    /\ pc = "provider"
    /\ calls' = calls + 1
    /\ sent' = urls
    /\ upstream' = up
    /\ IF up.outcome \in {"raises", "no_choices"}
       THEN /\ Respond(HTTPException(502, [msg |-> "AI parsing error: ", arg |-> up.outcome]))
            /\ UNCHANGED data
       ELSE LET raw == IF up.outcome = "content_none" \/ up.content = ""
                       THEN "{}" ELSE up.content
                parsed == json_loads(raw)
            IN  IF parsed.ok
                THEN /\ data' = parsed.value
                     /\ pc' = "validate"
                     /\ UNCHANGED response
                ELSE /\ Respond([status |-> 500, via |-> "unhandled", detail |-> NoDetail,
                                 body |-> NoBody])
                     /\ UNCHANGED data
    /\ UNCHANGED <<OPENAI_API_KEY, front, side, back, urls, reads, out, healthResp>>
    /\ UNCHANGED jobVars

provider_retry(up) ==
    /\ pc = "provider"
    /\ calls' = calls + 1
    /\ sent' = urls
    /\ upstream' = up
    /\ IF up.outcome \in {"raises", "no_choices"}
       THEN /\ IF calls = 0
               THEN pc' = "provider" /\ UNCHANGED response
               ELSE Respond(HTTPException(502, [msg |-> "AI parsing error: ",
                                                arg |-> up.outcome]))
            /\ UNCHANGED data
       ELSE LET raw == IF up.outcome = "content_none" \/ up.content = ""
                       THEN "{}" ELSE up.content
                parsed == json_loads(raw)
            IN  IF parsed.ok
                THEN /\ data' = parsed.value
                     /\ pc' = "validate"
                     /\ UNCHANGED response
                ELSE /\ Respond(HTTPException(502, [msg |-> "AI parsing error: ",
                                                    arg |-> "JSONDecodeError"]))
                     /\ UNCHANGED data
    /\ UNCHANGED <<OPENAI_API_KEY, front, side, back, urls, reads, out, healthResp>>
    /\ UNCHANGED jobVars

analyze_provider(up) ==
    /\ pc = "provider"
    /\ calls' = calls + 1
    /\ sent' = urls
    /\ upstream' = up
    /\ IF up.outcome \in {"raises", "no_choices"}
       THEN /\ Respond(HTTPException(502, [msg |-> "AI parsing error: ", arg |-> up.outcome]))
            /\ UNCHANGED data
       ELSE LET raw == IF up.outcome = "content_none" \/ up.content = ""
                       THEN "{}" ELSE up.content
                parsed == json_loads(raw)
            IN  IF parsed.ok
                THEN /\ data' = parsed.value
                     /\ pc' = "validate"
                     /\ UNCHANGED response
                ELSE /\ Respond(HTTPException(502, [msg |-> "AI parsing error: ",
                                                    arg |-> "JSONDecodeError"]))
                     /\ UNCHANGED data
    /\ UNCHANGED <<OPENAI_API_KEY, front, side, back, urls, reads, out, healthResp>>
    /\ UNCHANGED jobVars

validate_mismatch_as_200 ==
    /\ pc = "validate"
    /\ LET v == AnalyzeResponse(data)
       IN  /\ out' = IF v.ok THEN [set |-> TRUE, members |-> v.members] ELSE out
           /\ Respond([status |-> 200, via |-> "response_model", detail |-> NoDetail,
                       body |-> [NoBody EXCEPT !.report = IF v.ok THEN v.members
                                                          ELSE data.members]])
    /\ UNCHANGED <<OPENAI_API_KEY, front, side, back, urls, reads, calls, sent,
                   upstream, data, healthResp>>
    /\ UNCHANGED jobVars

analyze_validate ==
    /\ pc = "validate"
    /\ LET v == AnalyzeResponse(data)
       IN  IF v.ok
           THEN /\ out' = [set |-> TRUE, members |-> v.members]
                /\ Respond([status |-> 200, via |-> "response_model", detail |-> NoDetail,
                            body |-> [NoBody EXCEPT !.report = v.members]])
           ELSE /\ Respond(JSONResponse(502, [error |-> "SchemaMismatch", raw |-> data,
                                               errors |-> v.errors, report |-> {}]))
                /\ UNCHANGED out
    /\ UNCHANGED <<OPENAI_API_KEY, front, side, back, urls, reads, calls, sent,
                   upstream, data, healthResp>>
    /\ UNCHANGED jobVars

Next ==
    \/ health
    \/ analyze_credential
    \/ analyze_image("front", front)
    \/ analyze_image("side", side)
    \/ analyze_image("back", back)
    \/ \E up \in Upstreams : analyze_provider(up)
    \/ analyze_validate

Spec == Init /\ [][Next]_vars

----------------------------------------------------------------------------
(* Polling variant: job store and orchestrator *)

MaxJobs == 2

PhotoRefs == {"no photos", "front+side+back"}

Reports == {"canned report"}

BackendErrors == {"ProviderError", "ValidationError", "ConfigError"}

JobInit ==
    /\ OPENAI_API_KEY = "sk-test"
    /\ front = [content_type |-> "image/jpeg", size |-> 1, readable |-> TRUE]
    /\ side = front
    /\ back = front
    /\ pc = "credential"
    /\ urls = << >>
    /\ reads = << >>
    /\ calls = 0
    /\ sent = << >>
    /\ upstream = NoUpstream
    /\ data = NoJson
    /\ out = NoOut
    /\ response = NoResponse
    /\ healthResp = [answered |-> FALSE, ok |-> FALSE]
    /\ jobIdle

(* submit(photoRefs) -> jobId: a fresh id, a queued job with an empty      *)
(* result, and one scheduled background execution.                         *)
submit(photoRefs) ==
    /\ Len(JOBS) < MaxJobs
    /\ JOBS' = Append(JOBS, [status |-> "queued", message |-> "Queued",
                             result |-> NoResult, createdAt |-> Len(JOBS) + 1])
    /\ scheduled' = Append(scheduled, [at |-> "scheduled", photoRefs |-> photoRefs])
    /\ mutations' = Append(mutations, 0)
    /\ UNCHANGED pollResp
    /\ UNCHANGED syncVars

(* poll(jobId) -> Job | NotFound *)
poll(jobId) ==
    /\ pollResp' = IF jobId \in DOMAIN JOBS
                   THEN [asked |-> jobId, found |-> TRUE, job |-> JOBS[jobId]]
                   ELSE [asked |-> jobId, found |-> FALSE, job |-> NoJob]
    /\ UNCHANGED <<JOBS, mutations, scheduled>>
    /\ UNCHANGED syncVars

(* runPipeline step 1: transition to processing *)
runPipeline_start(jobId) ==
    /\ jobId \in DOMAIN JOBS
    /\ scheduled[jobId].at = "scheduled"
    /\ JOBS' = [JOBS EXCEPT ![jobId].status = "processing", ![jobId].message = "Analyzing"]
    /\ scheduled' = [scheduled EXCEPT ![jobId].at = "running"]
    /\ mutations' = [mutations EXCEPT ![jobId] = @ + 1]
    /\ UNCHANGED pollResp
    /\ UNCHANGED syncVars

finish_error_as_result(jobId, ok, payload) ==
    /\ jobId \in DOMAIN JOBS
    /\ scheduled[jobId].at = "running"
    /\ JOBS' = [JOBS EXCEPT ![jobId].status = IF ok THEN "done" ELSE "failed",
                            ![jobId].message = IF ok THEN "Complete" ELSE "Failed",
                            ![jobId].result = payload]
    /\ scheduled' = [scheduled EXCEPT ![jobId].at = "finished"]
    /\ mutations' = [mutations EXCEPT ![jobId] = @ + 1]
    /\ UNCHANGED pollResp
    /\ UNCHANGED syncVars

finish_rerun(jobId, ok, payload) ==
    /\ jobId \in DOMAIN JOBS
    /\ scheduled[jobId].at \in {"running", "finished"}
    /\ JOBS' = [JOBS EXCEPT ![jobId].status = IF ok THEN "done" ELSE "failed",
                            ![jobId].message = IF ok THEN "Complete" ELSE payload,
                            ![jobId].result = IF ok THEN payload ELSE NoResult]
    /\ scheduled' = [scheduled EXCEPT ![jobId].at = "finished"]
    /\ mutations' = [mutations EXCEPT ![jobId] = @ + 1]
    /\ UNCHANGED pollResp
    /\ UNCHANGED syncVars

(* runPipeline steps 2-4: the backend returns a report (done, the report   *)
(* stored) or fails (failed, the error message stored, no result).         *)
runPipeline_finish(jobId, ok, payload) ==
    /\ jobId \in DOMAIN JOBS
    /\ scheduled[jobId].at = "running"
    /\ JOBS' = [JOBS EXCEPT ![jobId].status = IF ok THEN "done" ELSE "failed",
                            ![jobId].message = IF ok THEN "Complete" ELSE payload,
                            ![jobId].result = IF ok THEN payload ELSE NoResult]
    /\ scheduled' = [scheduled EXCEPT ![jobId].at = "finished"]
    /\ mutations' = [mutations EXCEPT ![jobId] = @ + 1]
    /\ UNCHANGED pollResp
    /\ UNCHANGED syncVars

JobNext ==
    \/ \E refs \in PhotoRefs : submit(refs)
    \/ \E id \in 1..(MaxJobs + 1) : poll(id)
    \/ \E id \in 1..MaxJobs : runPipeline_start(id)
    \/ \E id \in 1..MaxJobs : \E r \in Reports : runPipeline_finish(id, TRUE, r)
    \/ \E id \in 1..MaxJobs : \E e \in BackendErrors : runPipeline_finish(id, FALSE, e)

JobSpec == JobInit /\ [][JobNext]_vars

----------------------------------------------------------------------------
(* Properties of the synchronous variant *)

Upload(i) == CASE i = 1 -> front [] i = 2 -> side [] i = 3 -> back

Unsupported(img) == img.content_type \notin ALLOWED_MIME

EmptyFile(img) == img.readable /\ img.size = 0

Oversized(img) == img.readable /\ img.size > MAX_BYTES

Accepted(img) ==
    /\ img.content_type \in ALLOWED_MIME
    /\ img.readable
    /\ 1 <= img.size
    /\ img.size <= MAX_BYTES

(* index of the first part, in the order front, side, back, that is not    *)
(* accepted; 0 when all three are                                          *)
FirstFailing ==
    IF \A i \in 1..3 : Accepted(Upload(i)) THEN 0
    ELSE CHOOSE i \in 1..3 : ~Accepted(Upload(i)) /\ \A j \in 1..(i - 1) : Accepted(Upload(j))

RejectionOf(img) ==
    IF Unsupported(img)
    THEN [status |-> 400, msg |-> "Unsupported content-type: ", arg |-> img.content_type]
    ELSE IF ~img.readable
    THEN [status |-> 400, msg |-> "Invalid images: ", arg |-> "read failed"]
    ELSE IF img.size = 0
    THEN [status |-> 400, msg |-> "Empty file", arg |-> ""]
    ELSE [status |-> 413, msg |-> "Image too large (> {}MB)", arg |-> "6"]

(* part i has been through _validate_and_b64 *)
Validated(i) ==
    /\ OPENAI_API_KEY # ""
    /\ \/ Len(urls) >= i
       \/ pc = "responded" /\ calls = 0 /\ Len(urls) = i - 1

\* C1 (as stated): whenever one of front, side, back has an unsupported
\* content-type, is empty or is oversized, the request is rejected with status
\* 400 and the provider is not called.
C1_Original ==
    (pc = "responded"
     /\ \E i \in 1..3 : Unsupported(Upload(i)) \/ EmptyFile(Upload(i)) \/ Oversized(Upload(i)))
    => (response.status = 400 /\ calls = 0)

\* C1 (amended): whenever one of front, side, back has an unsupported
\* content-type, is empty or is oversized, the provider is never called and
\* the request is rejected through an HTTPException whose status is 413 when
\* the first failing check is the size check and 400 otherwise.
C1_Rejected ==
    (\E i \in 1..3 : Unsupported(Upload(i)) \/ EmptyFile(Upload(i)) \/ Oversized(Upload(i)))
    => /\ calls = 0
       /\ pc \notin {"provider", "validate"}
       /\ pc = "responded" =>
            /\ response.via = "HTTPException"
            /\ response.status =
                 IF OPENAI_API_KEY = "" THEN 400
                 ELSE IF Unsupported(Upload(FirstFailing)) THEN 400
                 ELSE IF Oversized(Upload(FirstFailing)) THEN 413
                 ELSE 400

C1_Witness ==
    /\ pc = "responded"
    /\ Accepted(front)
    /\ Oversized(side) /\ ~Unsupported(side)
    /\ Unsupported(back)
    /\ response.status = 413
    /\ calls = 0

\* C2: for an upload with an allowed content-type that has been validated, it
\* is accepted (a data URL is produced) iff 1 <= size <= MAX_BYTES; at exactly
\* MAX_BYTES it is accepted and encoded, at MAX_BYTES + 1 it is rejected with
\* the size error.
C2_SizeBoundary ==
    \A i \in 1..3 :
        LET img == Upload(i) IN
        (Validated(i) /\ img.content_type \in ALLOWED_MIME /\ img.readable) =>
            /\ (Len(urls) >= i) <=> (1 <= img.size /\ img.size <= MAX_BYTES)
            /\ img.size = MAX_BYTES =>
                 /\ Len(urls) >= i
                 /\ urls[i].b64len = 8388608
                 /\ urls[i].mime \in {"image/jpeg", "image/png"}
            /\ img.size = MAX_BYTES + 1 =>
                 /\ Len(urls) = i - 1
                 /\ response.via = "HTTPException"
                 /\ response.detail.msg = "Image too large (> {}MB)"
                 /\ response.detail.arg = "6"

C2_Witness ==
    /\ pc = "responded"
    /\ front.content_type = "image/png" /\ front.size = MAX_BYTES
    /\ side.content_type = "image/heic" /\ side.size = MAX_BYTES + 1
    /\ Len(urls) = 1
    /\ urls[1] = [mime |-> "image/png", b64len |-> 8388608]
    /\ response.detail.msg = "Image too large (> {}MB)"

\* C3: with no credential the process is up and GET /health answers ok: true,
\* and POST /analyze, whatever its uploads, ends with the 400 configuration
\* error without reading or validating any image and without a provider call.
C3_NoCredential ==
    (OPENAI_API_KEY = "") =>
        /\ ENABLED health
        /\ healthResp.answered => healthResp.ok
        /\ reads = << >> /\ urls = << >> /\ calls = 0
        /\ pc \in {"credential", "responded"}
        /\ pc = "responded" =>
             /\ response.status = 400
             /\ response.via = "HTTPException"
             /\ response.detail.msg = "OPENAI_API_KEY is not set on the server."

C3_Witness ==
    /\ OPENAI_API_KEY = ""
    /\ healthResp = [answered |-> TRUE, ok |-> TRUE]
    /\ Unsupported(front) /\ Oversized(side) /\ Accepted(back)
    /\ pc = "responded"
    /\ response.status = 400
    /\ reads = << >>

\* C4: once the provider has been called (credential present, three images
\* accepted), if the call raised, returned no usable choice or content, or
\* returned text that is not parseable JSON, the request ends with 502: never
\* 200, never an unhandled exception.
C4_ProviderFailure ==
    (calls > 0
     /\ \/ upstream.outcome \in {"raises", "no_choices", "content_none"}
        \/ ~json_loads(upstream.content).ok)
    => /\ OPENAI_API_KEY # "" /\ Len(urls) = 3
       /\ pc \in {"validate", "responded"}
       /\ pc = "validate" => ENABLED analyze_validate
       /\ pc = "responded" =>
            /\ response.status = 502
            /\ response.via \in {"HTTPException", "JSONResponse"}

C4_Witness ==
    /\ pc = "responded"
    /\ upstream = [outcome |-> "content", content |-> "Sorry, I cannot help with that."]
    /\ response.status = 502
    /\ response.detail.msg = "AI parsing error: "

(* the object has every declared field with a value its type accepts *)
MatchesSchema(d) ==
    /\ d.kind = "object"
    /\ \A f \in AnalyzeResponseFields :
           \E m \in d.members : m[1] = f[1] /\ Coerce(f[2], m[2]) # "invalid"

C6_ValidatedOnly ==
    (response.status = 200) =>
        /\ pc = "responded"
        /\ calls = 1
        /\ upstream.outcome = "content"
        /\ json_loads(upstream.content).ok
        /\ data = json_loads(upstream.content).value
        /\ MatchesSchema(data)
        /\ out.set
        /\ response.body.report = out.members
        /\ response.body.report = ValidMembers
        /\ response.body.error = ""

C6_Witness ==
    /\ response.status = 200
    /\ upstream.content = "{valid report, plus notes}"
    /\ <<"notes", "str">> \in data.members
    /\ response.body.report = ValidMembers

\* C7: the provider is invoked at most once per request, only from the
\* provider step, and once the request has its response (502 included) there
\* is no further invocation and the response does not change.
C7_NoRetry ==
    /\ [](calls <= 1)
    /\ [][calls' # calls => (calls = 0 /\ pc = "provider" /\ calls' = 1)]_vars
    /\ [][pc = "responded" => (pc' = pc /\ calls' = calls /\ response' = response)]_vars
    /\ [][(pc = "provider" /\ pc' # pc) => pc' \in {"validate", "responded"}]_vars
    /\ [][(pc = "validate" /\ pc' # pc) => pc' = "responded"]_vars

C7_Witness ==
    /\ pc = "responded"
    /\ calls = 1
    /\ upstream.outcome = "raises"
    /\ response.status = 502

IsPrefix(s, t) == Len(s) <= Len(t) /\ \A i \in 1..Len(s) : s[i] = t[i]

ExpectedUrl(img) ==
    [mime |-> IF img.content_type \in {"image/jpeg", "image/jpg"}
              THEN "image/jpeg" ELSE "image/png",
     b64len |-> 4 * ((img.size + 2) \div 3)]

\* C10: the credential is checked first, then front, side, back in that
\* order; the provider is called only with the credential present and all
\* three accepted; a rejection is the one of the first failing check, and no
\* image after the failing one is read.
C10_Order ==
    /\ IsPrefix(reads, Parts)
    /\ Len(urls) <= Len(reads)
    /\ (calls > 0 \/ pc \in {"provider", "validate"}) =>
         /\ OPENAI_API_KEY # ""
         /\ \A i \in 1..3 : Accepted(Upload(i))
         /\ reads = Parts
         /\ urls = <<ExpectedUrl(front), ExpectedUrl(side), ExpectedUrl(back)>>
    /\ calls > 0 => sent = urls
    /\ (pc = "responded" /\ calls = 0) =>
         IF OPENAI_API_KEY = ""
         THEN /\ reads = << >>
              /\ response.detail.msg = "OPENAI_API_KEY is not set on the server."
         ELSE LET i == FirstFailing
                  rej == RejectionOf(Upload(i))
              IN  /\ i # 0
                  /\ response.status = rej.status
                  /\ response.detail = [msg |-> rej.msg, arg |-> rej.arg]
                  /\ Len(urls) = i - 1
                  /\ reads = SubSeq(Parts, 1, IF Unsupported(Upload(i)) THEN i - 1 ELSE i)

C10_Witness ==
    /\ pc = "responded"
    /\ OPENAI_API_KEY # ""
    /\ Accepted(front)
    /\ EmptyFile(side) /\ ~Unsupported(side)
    /\ Unsupported(back)
    /\ response.status = 400
    /\ response.detail.msg = "Empty file"
    /\ reads = <<"front", "side">>
    /\ calls = 0

----------------------------------------------------------------------------
(* Properties of the polling variant *)

Terminal(job) == job.status \in {"done", "failed"}

\* C8: in every state of the job store, and in every answer of a poll, a
\* job's result is non-empty iff its status is done.
C8_ResultIffDone ==
    /\ \A j \in DOMAIN JOBS : (JOBS[j].result # NoResult) <=> (JOBS[j].status = "done")
    /\ pollResp.found => ((pollResp.job.result # NoResult) <=> (pollResp.job.status = "done"))
    /\ ~pollResp.found => pollResp.job.result = NoResult

C8_Witness ==
    /\ Len(JOBS) = 2
    /\ JOBS[1].status = "failed" /\ JOBS[1].result = NoResult
    /\ JOBS[2].status = "done" /\ JOBS[2].result = "canned report"
    /\ pollResp.found /\ pollResp.asked = 2 /\ pollResp.job.result = "canned report"

\* C9: a job's status only moves queued -> processing -> done | failed, a
\* terminal job has been mutated exactly twice and is never mutated again (so
\* every later poll returns the same snapshot), and no job is deleted.
C9_Monotonic ==
    /\ [](\A j \in DOMAIN JOBS :
            /\ JOBS[j].status \in {"queued", "processing", "done", "failed"}
            /\ JOBS[j].status = "queued" => mutations[j] = 0
            /\ JOBS[j].status = "processing" => mutations[j] = 1
            /\ Terminal(JOBS[j]) => mutations[j] = 2)
    /\ [][\A j \in DOMAIN JOBS :
            /\ j \in DOMAIN JOBS'
            /\ JOBS'[j].createdAt = JOBS[j].createdAt
            /\ \/ JOBS'[j] = JOBS[j]
               \/ JOBS[j].status = "queued" /\ JOBS'[j].status = "processing"
               \/ JOBS[j].status = "processing" /\ Terminal(JOBS'[j])
            /\ Terminal(JOBS[j]) => (JOBS'[j] = JOBS[j] /\ mutations'[j] = mutations[j])]_vars
    /\ [][(pollResp' # pollResp /\ pollResp'.found) =>
             pollResp'.job = JOBS[pollResp'.asked]]_vars

C9_Witness ==
    /\ Len(JOBS) = 2
    /\ JOBS[1].status = "done" /\ mutations[1] = 2
    /\ JOBS[2].status = "processing" /\ mutations[2] = 1
    /\ pollResp = [asked |-> 1, found |-> TRUE, job |-> JOBS[1]]

====
